---- MODULE Spec2Model ----
(***************************************************************************)
(* Model of the client-side ingestion pipeline LangchainBlobAISearch       *)
(* (src/langchain_blob_ai_search.py): the checked_files ledger, the        *)
(* scratch directories temp/blob and temp/txt, the remote search index,    *)
(* and trigger_pipeline's per-blob loop, run by one or two instances.      *)
(*                                                                         *)
(* Every remote or storage call that the code wraps in try/except, or      *)
(* leaves unguarded, may fail: the failure is an input of the step, and    *)
(* the step then does what the code does with it (swallow it, or let it    *)
(* propagate out of trigger_pipeline).  sqlite3.connect itself is taken to *)
(* succeed: the database file exists once __init__ has run.                *)
(***************************************************************************)
EXTENDS Integers, Sequences, FiniteSets, TLC

(***************************************************************************)
(* Bounds of the model.                                                    *)
(***************************************************************************)
\* trigger_pipeline calls made by one instance
MaxRuns == 2
\* uuid1 timestamps are drawn from 0..MaxTick
MaxTick == 4
\* longest chunk list handed to __document_generator on its own
MaxLen == 3

(***************************************************************************)
(* str(uuid.uuid1()).split('-')[0] is the time_low field of the UUID: the  *)
(* low 32 bits of its 60-bit timestamp.  The width is scaled down from     *)
(* 2^32 so that the timestamps stay within the model's integers.           *)
(***************************************************************************)
TimeLowMod == 4

(***************************************************************************)
(* The blob container.  A blob name is the sequence of its '/'-separated   *)
(* segments; list_blobs() yields the names in lexicographic order.  The    *)
(* container does not change while the pipeline runs.                      *)
(***************************************************************************)
Container == << <<"a.pdf">>, <<"b.pdf">>, <<"docs", "a.pdf">> >>

\* the container the two concurrent instances are run against
ConcContainer == << <<"b.pdf">>, <<"docs", "a.pdf">> >>

BlobNames == {Container[k] : k \in 1..Len(Container)}

\* blob.name.split('/')[-1]
BaseName(name) == name[Len(name)]

\* How many chunks the splitter makes of a blob's text (the text itself is
\* the loader's and the splitter's business; a chunk is identified by the
\* blob it was extracted from and its position).
ChunkCount(src) ==
    IF src = <<"a.pdf">> THEN 2
    ELSE IF src = <<"b.pdf">> THEN 1
    ELSE 0

Instances == {1, 2}

VARIABLES
    container,     \* the listing of the blob container
    ledger,        \* rows of checked_files, in id order: the file_name column
    index,         \* the documents of the remote search index, keyed by id
    blobDir,       \* temp/blob: a set of [file, content] (content: the blob copied)
    txtFile,       \* temp/txt/temp.txt: the blob whose text it holds, <<>> if absent
    pc,            \* per instance: where it stands in trigger_pipeline
    idx,           \* per instance: position of the loop in the blob list
    run,           \* per instance: number of trigger_pipeline calls started
    chunks,        \* per instance: local variable chunks
    docs,          \* per instance: local variable docs
    exit,          \* per instance: how the last trigger_pipeline call ended
    outcome,       \* per instance: what the last step did
    trace,         \* per instance: the steps done so far for the blob it is at
    uploaded,      \* the blob names some upload call has put into the index
    recorded       \* the blob names __insert_new_file_into_db was called with

vars == <<container, ledger, index, blobDir, txtFile, pc, idx, run, chunks, docs, exit,
          outcome, trace, uploaded, recorded>>

(***************************************************************************)
(* The ledger.                                                             *)
(***************************************************************************)
\* SELECT * FROM checked_files WHERE file_name == (?)
SelectByName(rows, file_name) == SelectSeq(rows, LAMBDA r : r = file_name)

HasRow(rows, file_name) == Len(SelectByName(rows, file_name)) > 0

\* a comparison slip in __check_availablity: a single row does not count
CheckAvailablityOffByOne(rows, file_name, queryFails) ==
    IF queryFails THEN "None"
    ELSE IF Len(SelectByName(rows, file_name)) > 1 THEN "False"
    ELSE "True"

\* __check_availablity: "True", "False", or "None" when the query raised
\* (the except branch logs and the function falls off its end).
CheckAvailablity(rows, file_name, queryFails) ==
    IF queryFails THEN "None"
    ELSE IF Len(SelectByName(rows, file_name)) > 0 THEN "False"
    ELSE "True"

\* the caller testing `is not False` instead of the truth value
TruthyNotFalse(v) == v # "False"

\* the truth value Python's `if` gives the result
Truthy(v) == v = "True"

\* the ledger with a UNIQUE constraint on file_name
InsertNewFileUnique(rows, file_name, insertFails) ==
    IF insertFails \/ HasRow(rows, file_name) THEN rows ELSE Append(rows, file_name)

\* __insert_new_file_into_db: INSERT and commit; a failure is logged, no row.
\* The only key is the synthetic id, so the name may already be present.
InsertNewFileIntoDb(rows, file_name, insertFails) ==
    IF insertFails THEN rows ELSE Append(rows, file_name)

(***************************************************************************)
(* The scratch directory temp/blob.                                        *)
(***************************************************************************)
\* open(path, 'wb').write(content): creates the file or replaces its content
WriteFile(dir, file, content) ==
    {f \in dir : f.file # file} \cup {[file |-> file, content |-> content]}

FileExists(dir, file) == \E f \in dir : f.file = file

\* os.remove(path)
RemoveFile(dir, file) == {f \in dir : f.file # file}

(***************************************************************************)
(* Chunker and document builder.                                           *)
(***************************************************************************)
\* __chunk_text: the chunks of the text in temp/txt
ChunkText(src) ==
    IF src = <<>> THEN <<>>
    ELSE [k \in 1..ChunkCount(src) |-> [src |-> src, part |-> k]]

\* str(unique_id).split('-')[0]
TimeLow(timestamp) == timestamp % TimeLowMod

\* The timestamps of n successive uuid1() calls: uuid1 never reuses a
\* timestamp, so they strictly increase.
RECURSIVE Uuid1Seqs(_, _)
Uuid1Seqs(n, from) ==
    IF n = 0 THEN {<<>>}
    ELSE UNION {{<<t>> \o rest : rest \in Uuid1Seqs(n - 1, t + 1)} : t \in from..MaxTick}

\* __document_generator, given the timestamps its uuid1() calls draw.  Its
\* except branch (an empty result) is left out: nothing in the loop raises
\* on a list of strings.
DocumentGenerator(chunkList, file_name, stamps) ==
    [k \in 1..Len(chunkList) |->
        [id |-> TimeLow(stamps[k]),
         content |-> chunkList[k],
         metadata_storage_path |-> file_name]]

(***************************************************************************)
(* The remote index: "id" is the key field, an uploaded document replaces  *)
(* the one that has its id.                                                *)
(***************************************************************************)
IndexUpload(ix, documents) ==
    LET n == Len(documents)
        ids == {documents[k].id : k \in 1..n}
        lastOf(i) == CHOOSE k \in 1..n :
                        /\ documents[k].id = i
                        /\ \A j \in (k + 1)..n : documents[j].id # i
    IN {d \in ix : d.id \notin ids} \cup {documents[lastOf(i)] : i \in ids}

\* __upload_documents without its try/except
UploadDocumentsUncaught(ix, documents, uploadFails) ==
    [index |-> IF uploadFails THEN ix ELSE IndexUpload(ix, documents),
     raised |-> uploadFails]

\* __upload_documents: the remote call inside try/except; nothing is raised
UploadDocuments(ix, documents, uploadFails) ==
    [index |-> IF uploadFails THEN ix ELSE IndexUpload(ix, documents),
     raised |-> FALSE]

(***************************************************************************)
(* Initial state: the object is constructed, the ledger table exists and   *)
(* is empty, the scratch directories and the index are empty.              *)
(***************************************************************************)
Init ==
    /\ container = Container
    /\ ledger = <<>>
    /\ index = {}
    /\ blobDir = {}
    /\ txtFile = <<>>
    /\ pc = [i \in Instances |-> "idle"]
    /\ idx = [i \in Instances |-> 1]
    /\ run = [i \in Instances |-> 0]
    /\ chunks = [i \in Instances |-> <<>>]
    /\ docs = [i \in Instances |-> <<>>]
    /\ exit = [i \in Instances |-> "none"]
    /\ outcome = [i \in Instances |-> "ok"]
    /\ trace = [i \in Instances |-> <<>>]
    /\ uploaded = {}
    /\ recorded = {}

(***************************************************************************)
(* trigger_pipeline, one step at a time.  outcome records the failure the  *)
(* step met ("ok" if none, "skipped" when line 174 logs that the blob has  *)
(* already been processed); trace lists the steps done for the current     *)
(* blob.  The locals chunks and docs are dropped when the loop body ends:  *)
(* the next iteration assigns them before it reads them.                   *)
(***************************************************************************)
\* the blob the loop of instance i is at
Blob(i) == container[idx[i]]

\* the loop body with lines 170 and 171 swapped: record, then upload
StepAfterRecordFirst(step) ==
    CASE step = "download" -> "extract"
      [] step = "extract" -> "chunk"
      [] step = "chunk" -> "build"
      [] step = "build" -> "insert"
      [] step = "insert" -> "upload"
      [] step = "upload" -> "remove"
      [] step = "remove" -> "check"

\* the statement that follows each statement of the loop body (lines 162-172)
StepAfter(step) ==
    CASE step = "download" -> "extract"
      [] step = "extract" -> "chunk"
      [] step = "chunk" -> "build"
      [] step = "build" -> "upload"
      [] step = "upload" -> "insert"
      [] step = "insert" -> "remove"
      [] step = "remove" -> "check"

\* the loop moves to the next blob, or trigger_pipeline returns
Advance(i) ==
    /\ trace' = [trace EXCEPT ![i] = <<>>]
    /\ chunks' = [chunks EXCEPT ![i] = <<>>]
    /\ docs' = [docs EXCEPT ![i] = <<>>]
    /\ IF idx[i] < Len(container)
       THEN /\ idx' = [idx EXCEPT ![i] = idx[i] + 1]
            /\ pc' = [pc EXCEPT ![i] = "check"]
            /\ exit' = exit
       ELSE /\ idx' = idx
            /\ pc' = [pc EXCEPT ![i] = "idle"]
            /\ exit' = [exit EXCEPT ![i] = "returned"]

\* an exception leaves trigger_pipeline
Propagate(i) ==
    /\ idx' = idx
    /\ pc' = [pc EXCEPT ![i] = "idle"]
    /\ exit' = [exit EXCEPT ![i] = "raised"]
    /\ trace' = trace
    /\ chunks' = [chunks EXCEPT ![i] = <<>>]
    /\ docs' = [docs EXCEPT ![i] = <<>>]

\* the statement `step` is done, the one after it comes next
Goto(i, step) ==
    /\ idx' = idx
    /\ exit' = exit
    /\ pc' = [pc EXCEPT ![i] = StepAfter(step)]
    /\ trace' = [trace EXCEPT ![i] = Append(trace[i], step)]

\* lines 156-159: a call of trigger_pipeline begins
Trigger(i) ==
    /\ pc[i] = "idle"
    /\ run[i] < MaxRuns
    /\ run' = [run EXCEPT ![i] = run[i] + 1]
    /\ idx' = [idx EXCEPT ![i] = 1]
    /\ pc' = [pc EXCEPT ![i] = "check"]
    /\ exit' = [exit EXCEPT ![i] = "none"]
    /\ outcome' = [outcome EXCEPT ![i] = "ok"]
    /\ trace' = [trace EXCEPT ![i] = <<>>]
    /\ UNCHANGED <<container, ledger, index, blobDir, txtFile, chunks, docs, uploaded, recorded>>

\* line 160 and the else branch at 173-174
Check(i) ==
    /\ pc[i] = "check"
    /\ \E queryFails \in BOOLEAN :
         LET r == CheckAvailablity(ledger, Blob(i), queryFails) IN
         /\ outcome' = [outcome EXCEPT ![i] =
                           IF queryFails THEN "check_failed"
                           ELSE IF Truthy(r) THEN "ok" ELSE "skipped"]
         /\ IF Truthy(r)
            THEN /\ pc' = [pc EXCEPT ![i] = "download"]
                 /\ UNCHANGED <<idx, exit, trace, chunks, docs>>
            ELSE Advance(i)
    /\ UNCHANGED <<container, ledger, index, blobDir, txtFile, run, uploaded, recorded>>

\* lines 162-165: download the blob and write the scratch copy; a failed
\* download raises before the file is opened
Download(i) ==
    /\ pc[i] = "download"
    /\ \E downloadFails \in BOOLEAN :
         IF downloadFails
         THEN /\ Propagate(i)
              /\ outcome' = [outcome EXCEPT ![i] = "download_raised"]
              /\ UNCHANGED blobDir
         ELSE /\ Goto(i, "download")
              /\ outcome' = [outcome EXCEPT ![i] = "ok"]
              /\ blobDir' = WriteFile(blobDir, BaseName(Blob(i)), Blob(i))
              /\ UNCHANGED <<chunks, docs>>
    /\ UNCHANGED <<container, ledger, index, txtFile, run, uploaded, recorded>>

\* __get_file_name('blob'): file_paths[0], where os.listdir gives the entries
\* in arbitrary order: any file of temp/blob may be the one returned
GetFileName(dir) == dir

\* __pdf_to_text with the loader call wrapped in try/except like the others
PdfToTextCaught(txt, f, loaderFails) ==
    [txt |-> IF loaderFails THEN txt ELSE f.content,
     raised |-> FALSE]

\* __pdf_to_text on file f: the loader's text goes to temp/txt/temp.txt; a
\* failure of the loader is not caught
PdfToTextCall(txt, f, loaderFails) ==
    [txt |-> IF loaderFails THEN txt ELSE f.content,
     raised |-> loaderFails]

\* line 166, __pdf_to_text; file_paths[0] raises on an empty temp/blob
PdfToText(i) ==
    /\ pc[i] = "extract"
    /\ IF GetFileName(blobDir) = {}
       THEN /\ Propagate(i)
            /\ outcome' = [outcome EXCEPT ![i] = "extract_raised"]
            /\ UNCHANGED txtFile
       ELSE \E f \in GetFileName(blobDir), loaderFails \in BOOLEAN :
              LET r == PdfToTextCall(txtFile, f, loaderFails) IN
              /\ txtFile' = r.txt
              /\ outcome' = [outcome EXCEPT ![i] =
                                IF loaderFails THEN "extract_raised" ELSE "ok"]
              /\ IF r.raised
                 THEN Propagate(i)
                 ELSE Goto(i, "extract") /\ UNCHANGED <<chunks, docs>>
    /\ UNCHANGED <<container, ledger, index, blobDir, run, uploaded, recorded>>

\* line 167, __chunk_text: reads the first entry of temp/txt, which holds
\* temp.txt alone
Chunk(i) ==
    /\ pc[i] = "chunk"
    /\ chunks' = [chunks EXCEPT ![i] = ChunkText(txtFile)]
    /\ Goto(i, "chunk")
    /\ outcome' = [outcome EXCEPT ![i] = "ok"]
    /\ UNCHANGED <<container, ledger, index, blobDir, txtFile, run, docs, uploaded, recorded>>

\* line 168, __document_generator
Build(i) ==
    /\ pc[i] = "build"
    /\ \E stamps \in Uuid1Seqs(Len(chunks[i]), 0) :
         docs' = [docs EXCEPT ![i] = DocumentGenerator(chunks[i], Blob(i), stamps)]
    /\ Goto(i, "build")
    /\ outcome' = [outcome EXCEPT ![i] = "ok"]
    /\ UNCHANGED <<container, ledger, index, blobDir, txtFile, run, chunks, uploaded, recorded>>

\* lines 169-170, __upload_documents
Upload(i) ==
    /\ pc[i] = "upload"
    /\ \E uploadFails \in BOOLEAN :
         LET r == UploadDocuments(index, docs[i], uploadFails) IN
         /\ index' = r.index
         /\ uploaded' = IF uploadFails THEN uploaded ELSE uploaded \cup {Blob(i)}
         /\ outcome' = [outcome EXCEPT ![i] =
                           IF uploadFails THEN "upload_failed" ELSE "ok"]
         /\ IF r.raised
            THEN Propagate(i)
            ELSE Goto(i, "upload") /\ UNCHANGED <<chunks, docs>>
    /\ UNCHANGED <<container, ledger, blobDir, txtFile, run, recorded>>

\* line 171, __insert_new_file_into_db
Insert(i) ==
    /\ pc[i] = "insert"
    /\ \E insertFails \in BOOLEAN :
         /\ ledger' = InsertNewFileIntoDb(ledger, Blob(i), insertFails)
         /\ outcome' = [outcome EXCEPT ![i] =
                           IF insertFails THEN "insert_failed" ELSE "ok"]
    /\ recorded' = recorded \cup {Blob(i)}
    /\ Goto(i, "insert")
    /\ UNCHANGED <<container, index, blobDir, txtFile, run, chunks, docs, uploaded>>

\* line 172, the last statement of the loop body: os.remove raises when the
\* file is gone
Remove(i) ==
    /\ pc[i] = "remove"
    /\ IF FileExists(blobDir, BaseName(Blob(i)))
       THEN /\ blobDir' = RemoveFile(blobDir, BaseName(Blob(i)))
            /\ outcome' = [outcome EXCEPT ![i] = "ok"]
            /\ Advance(i)
       ELSE /\ Propagate(i)
            /\ outcome' = [outcome EXCEPT ![i] = "remove_raised"]
            /\ UNCHANGED blobDir
    /\ UNCHANGED <<container, ledger, index, txtFile, run, uploaded, recorded>>

Step(i) ==
    \/ Trigger(i)
    \/ Check(i)
    \/ Download(i)
    \/ PdfToText(i)
    \/ Chunk(i)
    \/ Build(i)
    \/ Upload(i)
    \/ Insert(i)
    \/ Remove(i)

\* one instance, calling trigger_pipeline again and again
Next == Step(1)

Spec == Init /\ [][Next]_vars

\* two instances that share the working directory, the ledger and the
\* index, each calling trigger_pipeline once
TriggerOnce(i) == run[i] = 0 /\ Trigger(i)

NextConc ==
    \E i \in Instances :
        \/ TriggerOnce(i)
        \/ Check(i)
        \/ Download(i)
        \/ PdfToText(i)
        \/ Chunk(i)
        \/ Build(i)
        \/ Upload(i)
        \/ Insert(i)
        \/ Remove(i)

InitConc ==
    /\ container = ConcContainer
    /\ ledger = <<>>
    /\ index = {}
    /\ blobDir = {}
    /\ txtFile = <<>>
    /\ pc = [i \in Instances |-> "idle"]
    /\ idx = [i \in Instances |-> 1]
    /\ run = [i \in Instances |-> 0]
    /\ chunks = [i \in Instances |-> <<>>]
    /\ docs = [i \in Instances |-> <<>>]
    /\ exit = [i \in Instances |-> "none"]
    /\ outcome = [i \in Instances |-> "ok"]
    /\ trace = [i \in Instances |-> <<>>]
    /\ uploaded = {}
    /\ recorded = {}

SpecConc == InitConc /\ [][NextConc]_vars

(***************************************************************************)
(* __document_generator on its own: any chunk list of up to MaxLen chunks  *)
(* and any file name of the container.                                     *)
(***************************************************************************)
ChunkPool == {[src |-> b, part |-> k] : b \in BlobNames, k \in 1..2}

ChunkLists == UNION {[1..n -> ChunkPool] : n \in 0..MaxLen}

InitGen ==
    /\ container = Container
    /\ ledger = <<>>
    /\ index = {}
    /\ blobDir = {}
    /\ txtFile = <<>>
    /\ pc = [i \in Instances |-> IF i = 1 THEN "build" ELSE "idle"]
    /\ idx \in [Instances -> 1..Len(Container)]
    /\ idx[2] = 1
    /\ run = [i \in Instances |-> IF i = 1 THEN 1 ELSE 0]
    /\ chunks \in [Instances -> ChunkLists]
    /\ chunks[2] = <<>>
    /\ docs = [i \in Instances |-> <<>>]
    /\ exit = [i \in Instances |-> "none"]
    /\ outcome = [i \in Instances |-> "ok"]
    /\ trace = [i \in Instances |-> IF i = 1 THEN <<"download", "extract", "chunk">> ELSE <<>>]
    /\ uploaded = {}
    /\ recorded = {}

NextGen == Build(1)

SpecGen == InitGen /\ [][NextGen]_vars

(***************************************************************************)
(* Properties.                                                             *)
(***************************************************************************)
\* instance i executes line 160 in this step
CheckStep(i) == pc[i] = "check" /\ <<pc'[i], idx'[i]>> # <<pc[i], idx[i]>>

\* the loop of instance i goes on to the next blob, or ends after the last
MovesOn(i) ==
    IF idx[i] < Len(container)
    THEN idx'[i] = idx[i] + 1 /\ pc'[i] = "check"
    ELSE idx'[i] = idx[i] /\ pc'[i] = "idle" /\ exit'[i] = "returned"

RowsOf(file_name) == Len(SelectByName(ledger, file_name))

DocsOf(file_name) == {d \in index : d.metadata_storage_path = file_name}

PerFileOrder ==
    <<"download", "extract", "chunk", "build", "upload", "insert", "remove">>

IsPrefix(s, t) == Len(s) <= Len(t) /\ SubSeq(t, 1, Len(s)) = s

\* C1: run twice by one instance against the unchanged container, the
\* pipeline ingests every blob at most once over both runs: no upload call
\* puts into the index the documents of a blob that an earlier upload call
\* has already put there (so the second run uploads nothing the first run
\* has ingested).
C1_Idempotent ==
    [][(run[1] <= 2 /\ pc[1] = "upload" /\ pc'[1] # "upload" /\ outcome'[1] = "ok")
          => Blob(1) \notin uploaded]_vars

C3_SkipNoSideEffects ==
    [][\A i \in Instances :
          (CheckStep(i) /\ HasRow(ledger, Blob(i)))
             => /\ UNCHANGED <<ledger, index, blobDir, txtFile, uploaded, recorded>>
                /\ trace'[i] = <<>>
                /\ MovesOn(i)]_vars

\* C3 witness: the second run has skipped the first blob, which the first
\* run recorded.
C3_Witness ==
    /\ run[1] = 2
    /\ pc[1] = "check"
    /\ idx[1] = 2
    /\ outcome[1] = "skipped"
    /\ RowsOf(container[1]) = 1

\* C4: once __insert_new_file_into_db has been called for a name, every
\* later ledger check of the name says "not new", and the check of a name
\* it was never called for says "new".
C4_LedgerUniqueness ==
    [][\A i \in Instances :
          CheckStep(i) => (pc'[i] = "download" <=> Blob(i) \notin recorded)]_vars

\* C5: __document_generator returns one document per chunk, in chunk order,
\* with the chunk as content and the file name as metadata_storage_path, and
\* no two documents of the result have the same id.
C5_DocumentBuilder ==
    pc[1] = "upload" =>
        /\ Len(docs[1]) = Len(chunks[1])
        /\ \A k \in 1..Len(docs[1]) :
              /\ docs[1][k].content = chunks[1][k]
              /\ docs[1][k].metadata_storage_path = Blob(1)
        /\ \A j, k \in 1..Len(docs[1]) : j # k => docs[1][j].id # docs[1][k].id

\* C6: the steps done for a blob are always a prefix of download, extract,
\* chunk, build, upload, record, delete, the instance standing at the next
\* one; the ledger changes only by the record step of a blob whose upload
\* call has returned; and the loop leaves a blob only by skipping it at the
\* check or by the delete that ends the full sequence.
C6_PerFileOrder ==
    /\ [](\A i \in Instances :
            /\ IsPrefix(trace[i], PerFileOrder)
            /\ pc[i] \notin {"idle", "check"} => pc[i] = PerFileOrder[Len(trace[i]) + 1])
    /\ [][\A i \in Instances :
            /\ (ledger' # ledger /\ pc'[i] # pc[i])
                  => /\ trace[i] = SubSeq(PerFileOrder, 1, 5)
                     /\ trace'[i] = SubSeq(PerFileOrder, 1, 6)
            /\ (run'[i] = run[i] /\ (idx'[i] # idx[i] \/ exit'[i] = "returned")
                   /\ pc'[i] # pc[i])
                  => \/ pc[i] = "check" /\ trace[i] = <<>>
                     \/ pc[i] = "remove" /\ trace[i] = SubSeq(PerFileOrder, 1, 6)]_vars

\* C6 witness: a blob has gone through every step up to the delete.
C6_Witness ==
    /\ pc[1] = "remove"
    /\ trace[1] = SubSeq(PerFileOrder, 1, 6)
    /\ HasRow(ledger, Blob(1))
    /\ Blob(1) \in uploaded

\* C7: the ledger accepts a second row for a name it already holds: when an
\* instance records a blob whose name has a row, the INSERT (unless it
\* fails) adds another row with the same file_name.
C7_DuplicateRowAccepted ==
    [][\A i \in Instances :
          (pc[i] = "insert" /\ pc'[i] # "insert" /\ outcome'[i] = "ok"
             /\ HasRow(ledger, Blob(i)))
             => Len(SelectByName(ledger', Blob(i))) = RowsOf(Blob(i)) + 1]_vars

\* C7 witness: both instances passed the ledger check for the same blob,
\* both uploaded its documents, both recorded it: two rows with its name.
C7_Witness ==
    /\ idx[1] = idx[2]
    /\ pc[1] = "remove" /\ pc[2] = "remove"
    /\ trace[1] = SubSeq(PerFileOrder, 1, 6)
    /\ trace[2] = SubSeq(PerFileOrder, 1, 6)
    /\ outcome[1] = "ok" /\ outcome[2] = "ok"
    /\ Blob(1) \in uploaded
    /\ RowsOf(Blob(1)) = 2

\* C8: when extraction raises for a blob, trigger_pipeline ends by the
\* exception at that blob: only the download was done for it (no upload, no
\* record, no delete), its name has no ledger row, its scratch copy is still
\* in temp/blob, and the blobs after it are not reached.
C8_ExtractionAborts ==
    \A i \in Instances :
        outcome[i] = "extract_raised" =>
            /\ pc[i] = "idle"
            /\ exit[i] = "raised"
            /\ trace[i] = <<"download">>
            /\ ~HasRow(ledger, Blob(i))
            /\ [file |-> BaseName(Blob(i)), content |-> Blob(i)] \in blobDir

\* C8 witness: extraction raised at a blob that is not the last one.
C8_Witness ==
    /\ outcome[1] = "extract_raised"
    /\ idx[1] < Len(container)
    /\ exit[1] = "raised"

\* C9: a ledger check whose query fails starts no download and changes
\* neither the ledger, nor the scratch files, nor the index; the loop goes on
\* to the next blob.
C9_ReadFailureSkips ==
    [][\A i \in Instances :
          (CheckStep(i) /\ outcome'[i] = "check_failed")
             => /\ UNCHANGED <<ledger, index, blobDir, txtFile, uploaded, recorded>>
                /\ trace'[i] = <<>>
                /\ MovesOn(i)]_vars

\* C9 witness: the check of a blob that has no row failed, and the loop is
\* at the next blob.
C9_Witness ==
    /\ pc[1] = "check"
    /\ idx[1] = 2
    /\ outcome[1] = "check_failed"
    /\ ~HasRow(ledger, container[1])

\* C10: whenever extraction starts, temp/blob holds exactly one file, the
\* copy of the blob being processed, and every document of the index carries
\* text extracted from the blob its metadata_storage_path names.
C10_ScratchHoldsCurrentBlob ==
    /\ pc[1] = "extract" =>
          blobDir = {[file |-> BaseName(Blob(1)), content |-> Blob(1)]}
    /\ \A d \in index : d.content.src = d.metadata_storage_path

====
